---- MODULE Spec2Model ----
(***************************************************************************)
(* A model of crawl_mcp.py: the markdown link/image stripper, the result   *)
(* aggregator (results_to_markdown), the crawl orchestrator                *)
(* (crawl_and_output_to_markdown) and the tool handler (crawl_tool).       *)
(*                                                                         *)
(* Text is a sequence of tokens.  A token is one character, or one of the  *)
(* multi-character literals the code searches for ("404 Not Found",        *)
(* "nginx", the three-backtick fence, a placeholder "__CODE_BLOCK_n__").   *)
(* The single-character tokens used here share no character with the       *)
(* literals, so a substring test on the text is a membership test on the   *)
(* tokens and a regular expression over characters is one over tokens.     *)
(***************************************************************************)
EXTENDS Integers, Sequences, FiniteSets, TLC

VARIABLES
    pc,          \* where the server is: idle, engine, aggregate, loop, close
    call,        \* the last tool call that passed the argument checks
    engineCalls, \* times the crawler was invoked for the current call
    results,     \* the list the engine returned
    idx,         \* results the aggregation loop has finished with
    stats,       \* the stats dict of results_to_markdown
    md_file,     \* the output artifact of the current call
    aggResult,   \* what results_to_markdown returned
    ret,         \* what crawl_and_output_to_markdown returned
    events,      \* what the engine and the file system did during the call
    reply,       \* the outcome of the last call handed to the transport
    now,         \* datetime.now()
    registry,    \* the tools the server has registered
    markdown_text, \* input of remove_links_from_markdown
    stripped     \* its output

vars == <<pc, call, engineCalls, results, idx, stats, md_file, aggResult,
          ret, events, reply, now, registry, markdown_text, stripped>>

serverVars == <<pc, call, engineCalls, results, idx, stats, md_file,
                aggResult, ret, events, reply, now, registry>>

stripVars == <<markdown_text, stripped>>

----------------------------------------------------------------------------
(* Bounds *)

MaxPieces == 5
MaxResults == 3
MaxClock == 2

----------------------------------------------------------------------------
(* remove_links_from_markdown *)

\* The token standing for three consecutive backticks.
Fence == "<fence>"

\* f"__CODE_BLOCK_{len(code_blocks)-1}__"
Placeholder(k) == "__CODE_BLOCK_" \o ToString(k) \o "__"

\* The least j in i..Len(s) with s[j] = tok, or 0.
FirstAt(s, i, tok) ==
    IF \E j \in i..Len(s) : s[j] = tok
    THEN CHOOSE j \in i..Len(s) : s[j] = tok /\ \A k \in i..(j-1) : s[k] # tok
    ELSE 0

RECURSIVE SaveCodeBlocks(_, _, _, _)
\* re.sub(r'```[\s\S]*?```', save_code_block, markdown_text), scanning from i.
SaveCodeBlocks(s, i, out, blocks) ==
    IF i > Len(s) THEN [text |-> out, code_blocks |-> blocks]
    ELSE LET j == IF s[i] = Fence THEN FirstAt(s, i + 1, Fence) ELSE 0
         IN IF j # 0
            THEN SaveCodeBlocks(s, j + 1, Append(out, Placeholder(Len(blocks))),
                                Append(blocks, SubSeq(s, i, j)))
            ELSE SaveCodeBlocks(s, i + 1, Append(out, s[i]), blocks)

\* The end of a match of \[[^\]]<q>\]\([^)]+\) whose "[" is at i, or 0;
\* minAlt is 1 for the link's [^\]]+ and 0 for the image's [^\]]*.
BracketMatchEnd(s, i, minAlt) ==
    IF i > Len(s) \/ s[i] # "[" THEN 0
    ELSE LET j == FirstAt(s, i + 1, "]")
         IN IF j = 0 \/ j - i - 1 < minAlt \/ j + 1 > Len(s) \/ s[j + 1] # "("
            THEN 0
            ELSE LET k == FirstAt(s, j + 2, ")")
                 IN IF k = 0 \/ k = j + 2 THEN 0 ELSE k

RECURSIVE SubLinks(_, _, _)
\* re.sub(r'\[([^\]]+)\]\([^)]+\)', r'\1', s), scanning from i.
SubLinks(s, i, out) ==
    IF i > Len(s) THEN out
    ELSE LET k == BracketMatchEnd(s, i, 1)
         IN IF k # 0
            THEN SubLinks(s, k + 1,
                          out \o SubSeq(s, i + 1, FirstAt(s, i + 1, "]") - 1))
            ELSE SubLinks(s, i + 1, Append(out, s[i]))

RECURSIVE SubImages(_, _, _)
\* re.sub(r'!\[[^\]]*\]\([^)]+\)', '', s), scanning from i.
SubImages(s, i, out) ==
    IF i > Len(s) THEN out
    ELSE LET k == IF s[i] = "!" THEN BracketMatchEnd(s, i + 1, 0) ELSE 0
         IN IF k # 0
            THEN SubImages(s, k + 1, out)
            ELSE SubImages(s, i + 1, Append(out, s[i]))

\* \s, over the tokens of the model.
IsSpace(tok) == tok \in {" ", "\n"}

\* The last index of the run of tokens satisfying \s (or, with onlyBlank, of
\* spaces) that starts at i; i - 1 when s[i] is not one.
RECURSIVE RunEnd(_, _, _)
RunEnd(s, i, onlyBlank) ==
    IF i <= Len(s) /\ (IF onlyBlank THEN s[i] = " " ELSE IsSpace(s[i]))
    THEN RunEnd(s, i + 1, onlyBlank)
    ELSE i - 1

RECURSIVE SubBlankLines(_, _, _)
\* re.sub(r'\n\s*\n', '\n\n', s), scanning from i.
SubBlankLines(s, i, out) ==
    IF i > Len(s) THEN out
    ELSE LET e == RunEnd(s, i + 1, FALSE)
             nl == {j \in (i + 1)..e : s[j] = "\n"}
         IN IF s[i] = "\n" /\ nl # {}
            THEN SubBlankLines(s, (CHOOSE j \in nl : \A k \in nl : k <= j) + 1,
                               out \o <<"\n", "\n">>)
            ELSE SubBlankLines(s, i + 1, Append(out, s[i]))

RECURSIVE SubSpaces(_, _, _)
\* re.sub(r' {2,}', ' ', s), scanning from i.
SubSpaces(s, i, out) ==
    IF i > Len(s) THEN out
    ELSE LET e == RunEnd(s, i, TRUE)
         IN IF e > i
            THEN SubSpaces(s, e + 1, Append(out, " "))
            ELSE SubSpaces(s, i + 1, Append(out, s[i]))

RECURSIVE StrReplace(_, _, _)
\* s.replace(old, new) for a one-token old.
StrReplace(s, old, new) ==
    IF s = <<>> THEN <<>>
    ELSE (IF Head(s) = old THEN new ELSE <<Head(s)>>)
         \o StrReplace(Tail(s), old, new)

RECURSIVE RestoreCodeBlocks(_, _, _)
\* for i, code_block in enumerate(code_blocks): result = result.replace(...)
RestoreCodeBlocks(result, blocks, i) ==
    IF i >= Len(blocks) THEN result
    ELSE RestoreCodeBlocks(StrReplace(result, Placeholder(i), blocks[i + 1]),
                           blocks, i + 1)

remove_links_from_markdown(text) ==
    LET saved == SaveCodeBlocks(text, 1, <<>>, <<>>)
        text_without_links == SubLinks(saved.text, 1, <<>>)
        text_without_images == SubImages(text_without_links, 1, <<>>)
        text_without_empty_lines == SubBlankLines(text_without_images, 1, <<>>)
        text_without_extra_spaces == SubSpaces(text_without_empty_lines, 1, <<>>)
    IN RestoreCodeBlocks(text_without_extra_spaces, saved.code_blocks, 0)

----------------------------------------------------------------------------
(* Python values: None, str (a token sequence), int, dict *)

None == [type |-> "NoneType"]
PyStr(s) == [type |-> "str", val |-> s]
PyInt(n) == [type |-> "int", val |-> n]
PyDict(f) == [type |-> "dict", val |-> f]

\* bool(v)
Truthy(v) ==
    CASE v.type = "NoneType" -> FALSE
      [] v.type = "str" -> v.val # <<>>
      [] v.type = "int" -> v.val # 0
      [] OTHER -> TRUE

\* a or b
Or(a, b) == IF Truthy(a) THEN a ELSE b

\* needle in haystack, for a str haystack and a literal the tokens keep whole
In(needle, haystack) == \E i \in 1..Len(haystack.val) : haystack.val[i] = needle

\* d.get(key, default)
DictGet(d, key, default) ==
    IF key \in DOMAIN d.val THEN d.val[key] ELSE default

----------------------------------------------------------------------------
(* sanitize_text *)

\* A token that str.encode(sys.getdefaultencoding()) rejects.
Unencodable == "<lone surrogate>"

\* The replacements table, and [^\x00-\x7F]+ -> " " for what it leaves.
SanitizeToken(tok) ==
    CASE tok = "<right arrow>" -> "->"
      [] tok = "<em dash>" -> "--"
      [] tok = "<ellipsis>" -> "..."
      [] tok = Unencodable -> " "
      [] OTHER -> tok

sanitize_text(text) ==
    IF text.type = "NoneType" THEN <<>>
    ELSE IF \A i \in 1..Len(text.val) : text.val[i] # Unencodable
         THEN text.val
         ELSE [i \in 1..Len(text.val) |-> SanitizeToken(text.val[i])]

----------------------------------------------------------------------------
(* results_to_markdown: one iteration of the loop over results *)

\* getattr(result, "markdown", None) or getattr(result, "text", None)
TextForOutput(result) == Or(result.markdown, result.text)

\* ("404 Not Found" in t or "403 Forbidden" in t) and "nginx" in t
IsNginxErrorPage(t) ==
    (In("404 Not Found", t) \/ In("403 Forbidden", t)) /\ In("nginx", t)

\* NginxCounter with the 403 signature tested first.
NginxCounterForbiddenFirst(t) ==
    IF In("403 Forbidden", t) THEN "forbidden_pages" ELSE "not_found_pages"

\* error_type = "404" if "404 Not Found" in text_for_output else "403"
NginxCounter(t) ==
    IF In("404 Not Found", t) THEN "not_found_pages" ELSE "forbidden_pages"

error_indicators == <<"404", "403", "Not Found", "Forbidden">>

\* any(indicator in metadata["title"] for indicator in error_indicators)
HasErrorTitle(title) ==
    \E i \in 1..Len(error_indicators) : In(error_indicators[i], title)

TitleCounter(title) ==
    IF In("404", title) \/ In("Not Found", title)
    THEN "not_found_pages" ELSE "forbidden_pages"

\* What the loop body does with one result at time t, short of the write:
\* count it in a bucket and continue, raise, or render a section.
PageStep(result, t) ==
    LET text_for_output == TextForOutput(result) IN
    IF ~Truthy(text_for_output)
    THEN [kind |-> "skip", counter |-> "failed_pages"]
    ELSE IF IsNginxErrorPage(text_for_output)
    THEN [kind |-> "skip", counter |-> NginxCounter(text_for_output)]
    ELSE IF result.metadata.type # "dict"
    THEN [kind |-> "raise", error |-> "AttributeError: no attribute 'get'"]
    ELSE LET title == DictGet(result.metadata, "title", PyStr(<<"Untitled page">>))
             depth == DictGet(result.metadata, "depth", PyStr(<<"N/A">>))
         IN IF title.type # "str"
            THEN [kind |-> "raise", error |-> "TypeError: not iterable"]
            ELSE IF HasErrorTitle(title)
            THEN [kind |-> "skip", counter |-> TitleCounter(title)]
            ELSE [kind |-> "write",
                  md_content |->
                      [title |-> title, url |-> result.url, depth |-> depth,
                       timestamp |-> t,
                       content |-> remove_links_from_markdown(text_for_output.val)]]

\* The except clause of results_to_markdown.
WritingError(e, st) ==
    [error |-> PyStr(<<"Writing error: ", e>>), file_path |-> None, stats |-> st]

\* Write, skipping a section whose URL the artifact already holds.
WriteOncePerUrl(f, md_content) ==
    IF \E i \in 1..Len(f.written) : f.written[i].url = md_content.url
    THEN f
    ELSE [f EXCEPT !.written = Append(@, md_content)]

\* md_file.write(md_content)
Write(f, md_content) == [f EXCEPT !.written = Append(@, md_content)]

\* Count, with a skipped error page counted as failed as well.
CountErrorPageAsFailedToo(st, counter) ==
    IF counter \in {"not_found_pages", "forbidden_pages"}
    THEN [st EXCEPT ![counter] = @ + 1, !.failed_pages = @ + 1]
    ELSE [st EXCEPT ![counter] = @ + 1]

\* stats[counter] += 1
Count(st, counter) == [st EXCEPT ![counter] = @ + 1]

----------------------------------------------------------------------------
(* crawl_and_output_to_markdown and crawl_tool: return values and replies *)

\* The except clause of crawl_and_output_to_markdown.
CrawlingError(e) ==
    [error |-> PyStr(<<"Crawling error: ", e>>), file_path |-> None,
     stats |-> [successful_pages |-> 0, failed_pages |-> 0,
                not_found_pages |-> 0, forbidden_pages |-> 0,
                duration_seconds |-> 0]]

\* netloc.replace(".", "_") of the urls of the model.
Hostname(url) ==
    CASE url.val = <<"http://", "example.com">> -> "example_com"
      [] OTHER -> ""

\* os.path.join(get_results_directory(), generate_filename_from_url(url))
generate_filename_from_url(url, t) ==
    <<"crawl_results/", "crawl_", Hostname(url), "_", ToString(t), ".md">>

\* [types.TextContent(type="text", text=text)], returned by the handler
TextContent(text) ==
    [kind |-> "content", content |-> <<[type |-> "text", text |-> text]>>]

\* An exception leaving the handler.
Raised(exception, message) ==
    [kind |-> "raised", exception |-> exception, message |-> message]

\* UnexpectedFault without the except clause: the exception leaves the handler.
UnexpectedFaultPropagates(e) == Raised("Exception", <<e>>)

\* The except clause of crawl_tool.
UnexpectedFault(e) == TextContent(<<"Error: ">> \o sanitize_text(PyStr(<<e>>)))

\* What crawl_tool makes of the orchestrator's return value.
ToolReply(result, arguments) ==
    IF Truthy(result.error)
    THEN TextContent(<<"Error: ">> \o result.error.val)
    ELSE IF "duration_seconds" \notin DOMAIN result.stats
    THEN UnexpectedFault("KeyError: 'duration_seconds'")
    ELSE TextContent(
           <<"## Crawl completed successfully", "- URL: ">>
           \o arguments.url.val \o <<"- Result file: ">> \o result.file_path.val
           \o <<"- Duration: ", ToString(result.stats.duration_seconds),
                "- Pages processed: ",
                ToString(result.stats.successful_pages), " successful, ",
                ToString(result.stats.failed_pages), " failed, ",
                ToString(result.stats.not_found_pages), " not found (404), ",
                ToString(result.stats.forbidden_pages), " access forbidden (403)">>)

\* Validate without the check of the tool name.
ValidateUrlOnly(name, arguments) ==
    IF "url" \notin DOMAIN arguments THEN <<"Missing required argument 'url'">>
    ELSE <<>>

\* The two argument checks of crawl_tool: the error raised, or <<>>.
Validate(name, arguments) ==
    IF name # "crawl" THEN <<"Unknown tool: ", name>>
    ELSE IF "url" \notin DOMAIN arguments THEN <<"Missing required argument 'url'">>
    ELSE <<>>

\* list_tools: the one tool the server advertises.
Tools == {"crawl"}

----------------------------------------------------------------------------
(* The inputs the model explores *)

ToolNames == {"crawl", "search"}

GoodUrl == PyStr(<<"http://", "example.com">>)

\* The arguments of a call: with and without url and output_file, and a url
\* that is no string.
ArgumentSets ==
    {[url |-> GoodUrl],
     [url |-> GoodUrl, output_file |-> PyStr(<<"out.md">>)],
     [url |-> PyInt(7)],
     [max_depth |-> PyInt(1)]}

Page(url, markdown, text, metadata) ==
    [url |-> url, markdown |-> markdown, text |-> text, metadata |-> metadata]

Url1 == PyStr(<<"http://", "example.com", "/a">>)
Url2 == PyStr(<<"http://", "example.com", "/b">>)

Meta(title) == PyDict([depth |-> PyInt(0), title |-> title])

BodyMarkers == <<"404 Not Found", "403 Forbidden", "nginx">>

\* A text holding exactly the markers of S (in the order of ms) after a word.
TextWith(ms, S) ==
    PyStr(<<"x">> \o SelectSeq(ms, LAMBDA m : m \in S))

\* Six kinds of page for the lists of several results: two accepted pages
\* (one with a link in its text), a page with no text and an error title, an
\* nginx 404 page, a page with an error title, and a page without metadata.
DeepPages ==
    {Page(Url1, PyStr(<<"[", "x", "]", "(", "u", ")">>), None, Meta(PyStr(<<"Home">>))),
     Page(Url2, PyStr(<<"x">>), None, Meta(PyStr(<<"Home">>))),
     Page(Url1, None, PyStr(<<>>), Meta(PyStr(<<"404">>))),
     Page(Url2, PyStr(<<"404 Not Found", " ", "nginx">>), None, Meta(PyStr(<<"Home">>))),
     Page(Url1, PyStr(<<"x">>), None, Meta(PyStr(<<"403", " ", "Forbidden">>))),
     Page(Url2, PyStr(<<"x">>), None, None)}

\* Every combination of markdown (absent, empty, each set of body markers),
\* fallback text and metadata (absent, no title, a title that is no string,
\* each set of title indicators), for the lists of one result.
WidePages ==
    {Page(Url1, markdown, text, metadata) :
        markdown \in {None, PyStr(<<>>)}
                     \cup {TextWith(BodyMarkers, S) : S \in SUBSET {"404 Not Found", "403 Forbidden", "nginx"}},
        text \in {None, PyStr(<<>>), PyStr(<<"x">>), PyStr(<<"403 Forbidden", "nginx">>)},
        metadata \in {None, PyDict([depth |-> PyInt(0)]), Meta(None)}
                     \cup {Meta(TextWith(error_indicators, S)) :
                             S \in SUBSET {"404", "403", "Not Found", "Forbidden"}}}

SeqsUpTo(S, n) == UNION {[1..k -> S] : k \in 0..n}

ResultLists == SeqsUpTo(DeepPages, MaxResults) \cup {<<p>> : p \in WidePages}

----------------------------------------------------------------------------
(* The server: one tool call at a time *)

\* The artifact before open(output_path, "w").
Unopened == [state |-> "unopened", written |-> <<>>]

Init ==
    /\ pc = "idle"
    /\ call = [name |-> "", arguments |-> [max_depth |-> PyInt(1)], output_file |-> None]
    /\ engineCalls = 0
    /\ results = <<>>
    /\ idx = 0
    /\ stats = None
    /\ md_file = Unopened
    /\ aggResult = None
    /\ ret = None
    /\ events = {}
    /\ reply = [kind |-> "none"]
    /\ now = 0
    /\ registry = Tools
    /\ markdown_text = <<>>
    /\ stripped = <<>>

\* crawl_tool up to the engine call: the two argument checks, then
\* crawl_and_output_to_markdown up to its try block.  A rejected call, and one
\* that raises while the file name is derived, is over at once.
CallTool(name, arguments) ==
    /\ pc = "idle"
    /\ UNCHANGED <<now, registry, stripVars>>
    /\ \/ /\ Validate(name, arguments) # <<>>
          /\ reply' = Raised("ValueError", Validate(name, arguments))
          /\ UNCHANGED <<pc, call, engineCalls, results, idx, stats, md_file,
                         aggResult, ret, events>>
       \/ /\ Validate(name, arguments) = <<>>
          /\ engineCalls' = 0
          /\ results' = <<>>
          /\ idx' = 0
          /\ stats' = None
          /\ md_file' = Unopened
          /\ aggResult' = None
          /\ ret' = None
          /\ LET output_file == IF "output_file" \in DOMAIN arguments
                                THEN arguments.output_file ELSE None
             IN IF ~Truthy(output_file) /\ arguments.url.type # "str"
                THEN \* urllib.parse.urlparse(url) raises
                     /\ call' = [name |-> name, arguments |-> arguments,
                                 output_file |-> None]
                     /\ events' = {"orchestrator raised"}
                     /\ reply' = UnexpectedFault("AttributeError: 'int' object has no attribute 'decode'")
                     /\ pc' = "idle"
                ELSE /\ call' = [name |-> name, arguments |-> arguments,
                                 output_file |->
                                    IF Truthy(output_file) THEN output_file
                                    ELSE PyStr(generate_filename_from_url(arguments.url, now))]
                     /\ events' = {}
                     /\ reply' = [kind |-> "pending"]
                     /\ pc' = "engine"

\* async with AsyncWebCrawler() or crawler.arun raises.
EngineRaises(stage) ==
    /\ pc = "engine"
    /\ engineCalls' = engineCalls + 1
    /\ events' = events \cup {stage \o " raised"}
    /\ ret' = CrawlingError(stage \o " failed")
    /\ reply' = ToolReply(ret', call.arguments)
    /\ pc' = "idle"
    /\ UNCHANGED <<call, results, idx, stats, md_file, aggResult, now,
                   registry, stripVars>>

\* crawler.arun returns rs; then os.makedirs of the parent folder.
EngineReturns ==
    /\ pc = "engine"
    /\ engineCalls' = engineCalls + 1
    /\ \E rs \in ResultLists, dirOk \in BOOLEAN :
         /\ results' = rs
         /\ IF dirOk
            THEN /\ events' = events \cup {"arun returned"}
                 /\ pc' = "aggregate"
                 /\ UNCHANGED <<ret, reply>>
            ELSE /\ events' = events \cup {"arun returned", "makedirs raised"}
                 /\ ret' = CrawlingError("makedirs failed")
                 /\ reply' = ToolReply(ret', call.arguments)
                 /\ pc' = "idle"
    /\ UNCHANGED <<call, idx, stats, md_file, aggResult, now, registry, stripVars>>

\* results_to_markdown up to the loop: the stats dict and open(output_path, "w").
StartAggregation(openOk) ==
    /\ pc = "aggregate"
    /\ stats' = [successful_pages |-> 0, failed_pages |-> 0,
                 not_found_pages |-> 0, forbidden_pages |-> 0,
                 start_time |-> now]
    /\ idx' = 0
    /\ IF openOk
       THEN /\ md_file' = [state |-> "open", written |-> <<>>]
            /\ pc' = "loop"
            /\ UNCHANGED <<aggResult, events>>
       ELSE /\ aggResult' = WritingError("open failed", stats')
            /\ events' = events \cup {"open raised"}
            /\ pc' = "close"
            /\ UNCHANGED md_file
    /\ UNCHANGED <<call, engineCalls, results, ret, reply, now, registry, stripVars>>

\* One iteration of "for result in results".
ProcessResult(writeOk) ==
    /\ pc = "loop"
    /\ idx < Len(results)
    /\ LET step == PageStep(results[idx + 1], now) IN
       \/ /\ step.kind = "skip"
          /\ writeOk
          /\ stats' = Count(stats, step.counter)
          /\ idx' = idx + 1
          /\ UNCHANGED <<pc, md_file, aggResult, events>>
       \/ /\ step.kind = "write"
          /\ writeOk
          /\ md_file' = Write(md_file, step.md_content)
          /\ stats' = Count(stats, "successful_pages")
          /\ idx' = idx + 1
          /\ UNCHANGED <<pc, aggResult, events>>
       \/ /\ step.kind = "write"
          /\ ~writeOk
          /\ aggResult' = WritingError("write failed", stats)
          /\ events' = events \cup {"write raised"}
          /\ md_file' = [md_file EXCEPT !.state = "closed"]
          /\ pc' = "close"
          /\ UNCHANGED <<stats, idx>>
       \/ /\ step.kind = "raise"
          /\ writeOk
          /\ aggResult' = WritingError(step.error, stats)
          /\ md_file' = [md_file EXCEPT !.state = "closed"]
          /\ pc' = "close"
          /\ UNCHANGED <<stats, idx, events>>
    /\ UNCHANGED <<call, engineCalls, results, ret, reply, now, registry, stripVars>>

\* After the loop: the file is closed, the end time stamped at t, the duration
\* computed.
FinishAggregation(t) ==
    /\ pc = "loop"
    /\ idx = Len(results)
    /\ t >= now
    /\ now' = t
    /\ md_file' = [md_file EXCEPT !.state = "closed"]
    /\ stats' = [successful_pages |-> stats.successful_pages,
                 failed_pages |-> stats.failed_pages,
                 not_found_pages |-> stats.not_found_pages,
                 forbidden_pages |-> stats.forbidden_pages,
                 start_time |-> stats.start_time,
                 end_time |-> t,
                 duration_seconds |-> t - stats.start_time]
    /\ aggResult' = [file_path |-> call.output_file, stats |-> stats', error |-> None]
    /\ pc' = "close"
    /\ UNCHANGED <<call, engineCalls, results, idx, ret, events, reply,
                   registry, stripVars>>

\* The crawler's context is left; crawl_and_output_to_markdown returns and
\* crawl_tool builds its reply.
CloseCrawler(closeOk) ==
    /\ pc = "close"
    /\ IF closeOk
       THEN /\ ret' = aggResult
            /\ UNCHANGED events
       ELSE /\ ret' = CrawlingError("close failed")
            /\ events' = events \cup {"close raised"}
    /\ reply' = ToolReply(ret', call.arguments)
    /\ pc' = "idle"
    /\ UNCHANGED <<call, engineCalls, results, idx, stats, md_file, aggResult,
                   now, registry, stripVars>>

Next ==
    \/ \E name \in ToolNames, arguments \in ArgumentSets : CallTool(name, arguments)
    \/ \E stage \in {"enter", "arun"} : EngineRaises(stage)
    \/ EngineReturns
    \/ \E openOk \in BOOLEAN : StartAggregation(openOk)
    \/ \E writeOk \in BOOLEAN : ProcessResult(writeOk)
    \/ \E t \in 0..MaxClock : FinishAggregation(t)
    \/ \E closeOk \in BOOLEAN : CloseCrawler(closeOk)

Spec == Init /\ [][Next]_vars

----------------------------------------------------------------------------
(* remove_links_from_markdown on its own: an input, then the call *)

\* What an input is put together from: a word, a space, a line break, "!",
\* a bracketed alt text (with and without text), the two parentheses, a
\* fence, and text shaped like the first two placeholders.
Pieces ==
    {<<"a">>, <<" ">>, <<"\n">>, <<"!">>, <<"[", "a", "]">>, <<"[", "]">>,
     <<"(">>, <<")">>, <<Fence>>, <<Placeholder(0)>>, <<Placeholder(1)>>}

RECURSIVE Flatten(_)
Flatten(ps) == IF ps = <<>> THEN <<>> ELSE Head(ps) \o Flatten(Tail(ps))

InitStrip ==
    /\ pc = "idle"
    /\ call = [name |-> "", arguments |-> [max_depth |-> PyInt(1)], output_file |-> None]
    /\ engineCalls = 0
    /\ results = <<>>
    /\ idx = 0
    /\ stats = None
    /\ md_file = Unopened
    /\ aggResult = None
    /\ ret = None
    /\ events = {}
    /\ reply = [kind |-> "none"]
    /\ now = 0
    /\ registry = Tools
    /\ markdown_text \in {Flatten(ps) : ps \in SeqsUpTo(Pieces, MaxPieces)}
    /\ stripped = <<>>

\* The call: stripped holds the value returned.
Strip ==
    /\ stripped = <<>>
    /\ stripped' = <<remove_links_from_markdown(markdown_text)>>
    /\ UNCHANGED <<markdown_text, serverVars>>

SpecStrip == InitStrip /\ [][Strip]_vars

----------------------------------------------------------------------------
(* The claims *)

IsNone(v) == "type" \in DOMAIN v /\ v.type = "NoneType"

\* The title the classifier looks at, when the page has one.
HasTitle(r) ==
    /\ r.metadata.type = "dict"
    /\ DictGet(r.metadata, "title", PyStr(<<"Untitled page">>)).type = "str"

TitleHas(r, indicator) ==
    /\ HasTitle(r)
    /\ In(indicator, DictGet(r.metadata, "title", PyStr(<<"Untitled page">>)))

\* The bucket the ordered rules (1)-(5) of the page classifier give a page.
RuleOutcome(r) ==
    LET t == IF Truthy(r.markdown) THEN r.markdown ELSE r.text IN
    IF ~Truthy(t) THEN "failed_pages"
    ELSE IF In("404 Not Found", t) /\ In("nginx", t) THEN "not_found_pages"
    ELSE IF In("403 Forbidden", t) /\ In("nginx", t) THEN "forbidden_pages"
    ELSE IF \E ind \in {"404", "403", "Not Found", "Forbidden"} : TitleHas(r, ind)
    THEN IF TitleHas(r, "404") \/ TitleHas(r, "Not Found")
         THEN "not_found_pages" ELSE "forbidden_pages"
    ELSE "successful_pages"

\* The results the rules accept, in the order of the list.
AcceptedOf(rs) == SelectSeq(rs, LAMBDA r : RuleOutcome(r) = "successful_pages")

\* C1: when results_to_markdown returns Success, the artifact holds exactly one
\* section per accepted result, in the order of the results (a repeated URL
\* is written again), and stats.successful_pages is their number.
C1_SectionsFollowAccepted ==
    (~IsNone(aggResult) /\ IsNone(aggResult.error)) =>
        LET acc == AcceptedOf(results) IN
        /\ Len(md_file.written) = Len(acc)
        /\ \A i \in 1..Len(acc) :
              /\ md_file.written[i].url = acc[i].url
              /\ md_file.written[i].title =
                    DictGet(acc[i].metadata, "title", PyStr(<<"Untitled page">>))
              /\ md_file.written[i].content =
                    remove_links_from_markdown(TextForOutput(acc[i]).val)
        /\ aggResult.stats.successful_pages = Len(acc)

\* Success on three results, the first and the last accepted with the same
\* URL and a skipped page between them.
C1_Witness ==
    /\ ~IsNone(aggResult) /\ IsNone(aggResult.error)
    /\ Len(results) = 3
    /\ Len(md_file.written) = 2
    /\ md_file.written[1].url = md_file.written[2].url
    /\ results[1].url # results[2].url

\* The sum of the four counters of a stats dict.
Processed(st) ==
    st.successful_pages + st.failed_pages + st.not_found_pages + st.forbidden_pages

\* C2: throughout the loop, and in the stats results_to_markdown returns, the
\* four counters add up to the number of results the loop has finished with.
C2_CountersAddUp ==
    /\ pc = "loop" => Processed(stats) = idx
    /\ ~IsNone(aggResult) => Processed(aggResult.stats) = idx

\* A Failure on the third result, after a result with no text and an error
\* title and an accepted one.
C2_Witness ==
    /\ ~IsNone(aggResult) /\ Truthy(aggResult.error)
    /\ idx = 2
    /\ aggResult.stats.failed_pages = 1 /\ aggResult.stats.successful_pages = 1
    /\ \E i \in 1..2 : ~Truthy(TextForOutput(results[i])) /\ TitleHas(results[i], "404")

\* C3: a result the loop counts is counted in the bucket of the first rule
\* that matches it, in no other, and is written exactly when that is rule (5).
C3_FirstMatchWins ==
    [][(pc = "loop" /\ idx' = idx + 1 /\ HasTitle(results[idx + 1])) =>
          LET bucket == RuleOutcome(results[idx + 1]) IN
          /\ stats' = [stats EXCEPT ![bucket] = @ + 1]
          /\ Len(md_file'.written) =
                Len(md_file.written) + (IF bucket = "successful_pages" THEN 1 ELSE 0)]_vars

\* A page whose body has both nginx signatures and whose title has "403",
\* counted as not found.
C3_Witness ==
    /\ pc = "loop" /\ idx = 1
    /\ results[1].markdown.type = "str"
    /\ In("404 Not Found", results[1].markdown) /\ In("403 Forbidden", results[1].markdown)
    /\ In("nginx", results[1].markdown)
    /\ TitleHas(results[1], "403") /\ ~TitleHas(results[1], "404")
    /\ stats.not_found_pages = 1

\* The Failure crawl_and_output_to_markdown builds itself.
IsZeroedCrawlingError(r) ==
    /\ r.error.val[1] = "Crawling error: "
    /\ IsNone(r.file_path)
    /\ r.stats = [successful_pages |-> 0, failed_pages |-> 0, not_found_pages |-> 0,
                  forbidden_pages |-> 0, duration_seconds |-> 0]

EngineRaised == events \cap {"enter raised", "arun raised"} # {}

\* C4: whenever crawl_and_output_to_markdown returns, the engine was invoked
\* exactly once; if it raised, the zeroed "Crawling error" Failure is returned,
\* the aggregator was never entered and no artifact opened; if it succeeded,
\* the aggregator's result is returned unchanged.
C4_EngineOnceThenAggregatorResult ==
    ~IsNone(ret) =>
        /\ engineCalls = 1
        /\ EngineRaised =>
              IsZeroedCrawlingError(ret) /\ IsNone(aggResult) /\ md_file = Unopened
        /\ "arun returned" \in events => ret = aggResult

\* C5: a crawl call with a url never raises: the only exceptions leaving the
\* handler are the two argument checks.  Its reply is one text item, which
\* starts with "Error: " unless the run succeeded; the tool list is what it
\* was, and the idle server takes the next call.
C5_AlwaysOneTextItem ==
    /\ registry = Tools
    /\ reply.kind = "raised" =>
          /\ reply.exception = "ValueError"
          /\ reply.message[1] \in {"Unknown tool: ", "Missing required argument 'url'"}
    /\ reply.kind = "content" =>
          /\ Len(reply.content) = 1
          /\ reply.content[1].type = "text"
          /\ (IsNone(ret) \/ Truthy(ret.error)) => Head(reply.content[1].text) = "Error: "
    /\ reply.kind \in {"content", "raised"} =>
          /\ pc = "idle"
          /\ ENABLED CallTool("crawl", [url |-> GoodUrl])

\* The orchestrator raised before the engine was called, and the reply is an
\* error text.
C5_Witness ==
    /\ reply.kind = "content"
    /\ events = {"orchestrator raised"}
    /\ engineCalls = 0
    /\ Head(reply.content[1].text) = "Error: "

\* C6: a call taken by the idle server is either rejected with a ValueError,
\* and then the engine, the artifact and everything else of the server is as
\* it was, or it is a call of "crawl" with a url.
C6_RejectedBeforeOrchestrator ==
    [][pc = "idle" =>
          \/ /\ reply'.kind = "raised"
             /\ reply'.exception = "ValueError"
             /\ UNCHANGED <<pc, call, engineCalls, results, idx, stats, md_file,
                            aggResult, ret, events, registry>>
          \/ /\ reply'.kind # "raised"
             /\ call'.name = "crawl"
             /\ "url" \in DOMAIN call'.arguments]_vars

\* A call rejected after a crawl that wrote an artifact.
C6_Witness ==
    /\ reply.kind = "raised"
    /\ reply.message[1] = "Missing required argument 'url'"
    /\ md_file.state = "closed" /\ Len(md_file.written) > 0
    /\ engineCalls = 1

HasDuration(st) == "duration_seconds" \in DOMAIN st /\ st.duration_seconds >= 0

\* C7: every result the orchestrator or the aggregator returns carries
\* stats with duration_seconds present and >= 0.
C7_DurationAlwaysPresent ==
    /\ ~IsNone(aggResult) => HasDuration(aggResult.stats)
    /\ ~IsNone(ret) => HasDuration(ret.stats)

\* The fenced code blocks of a text, in order.
CodeBlocks(text) == SaveCodeBlocks(text, 1, <<>>, <<>>).code_blocks

\* C8: the fenced code blocks of the output are those of the input, each
\* unchanged and in the same order.
C8_CodeBlocksVerbatim ==
    stripped # <<>> => CodeBlocks(stripped[1]) = CodeBlocks(markdown_text)

\* A text that is one image, ![alt](url), or one link, [text](url).
IsImage(text) ==
    Len(text) > 1 /\ text[1] = "!" /\ BracketMatchEnd(text, 2, 0) = Len(text)

IsLink(text) == text # <<>> /\ BracketMatchEnd(text, 1, 1) = Len(text)

\* C9: an image outside code blocks is removed whole, a link is replaced by
\* its text.
C9_ImagesRemovedWhole ==
    (stripped # <<>> /\ \A i \in 1..Len(markdown_text) : markdown_text[i] # Fence) =>
        /\ IsImage(markdown_text) => stripped[1] = <<>>
        /\ IsLink(markdown_text) =>
              stripped[1] = SubSeq(markdown_text, 2, FirstAt(markdown_text, 2, "]") - 1)

\* C10: an exception raised while one result is processed does not end the
\* run: unless the artifact could not be opened or written, the aggregator
\* returns only after the loop has been through every result.
C10_PageFaultDoesNotAbort ==
    (~IsNone(aggResult) /\ events \cap {"open raised", "write raised"} = {}) =>
        idx = Len(results)

====
